---- MODULE Spec2Model ----
(***************************************************************************)
(* A model of ghdata: the SQLite storage layer (ghdata/storage.py), the     *)
(* GitHub API client (ghdata/github_client.py), the issue transform        *)
(* (ghdata/transforms.py) and the commands of ghdata/__main__.py.          *)
(*                                                                         *)
(* StorageSpec drives Storage.upsert_repos / Storage.upsert_issues with    *)
(* arbitrary row batches; ClientSpec drives one client operation against a *)
(* server that answers each request with an arbitrary response;            *)
(* OneCallSpec makes one storage call, MetricsSpec one Storage.metrics     *)
(* query or --metrics command, and SyncSpec one --sync-issues run, each on *)
(* a store that earlier calls have filled.                                 *)
(*                                                                         *)
(* Optional values (Python's None | value) are sequences of length <= 1:   *)
(* <<>> is None and <<v>> is the value v.                                  *)
(***************************************************************************)
EXTENDS Integers, Sequences, FiniteSets, TLC

VARIABLES
    \* ---- storage (the SQLite file) -------------------------------------
    repos,           \* table repos: a set of RepoRow records
    issues,          \* table issues: a set of IssueRow records
    \* ---- the last storage call and what it gave back ---------------------
    lastCall,        \* "none" | "upsert_repos" | "upsert_issues"
    ret,             \* what the last call returned or raised
    \* ---- auxiliary (history) variables ---------------------------------
    reapplied,       \* what a second call with the same batch gives
    submittedRepos,  \* repo_id  -> the row most recently submitted with it
    submittedIssues, \* issue_id -> the row most recently submitted with it
    \* ---- client: one operation of GitHubClient --------------------------
    op,              \* "none" | "get_viewer" | "get_rate_limit" |
                     \* "iter_user_repos" | "iter_repo_issues"
    pc,              \* "idle" | "running" | "done"
    next_url,        \* Optional URL: the local next_url
    seen,            \* the local set seen (iter_user_repos only)
    all_items,       \* the local list all_items
    requested,       \* history: the URLs requested, in order
    responses,       \* history: the server's answer to each request
    outcome,         \* what the operation returned or raised
    \* ---- more of the storage -------------------------------------------
    state,           \* table state: key -> Optional value
    lastLen,         \* history: len(rows_list) of the last upsert call
    firstOrphan,     \* history: the place in the last issue batch of the
                     \* first row whose repo_id is not in repos, or 0
    lastKey,         \* the key of the last get_state / set_state call
    got,             \* what the last get_state call returned (Optional),
                     \* None once set_state is called
    written,         \* history: key -> the value last passed to set_state
    stateAgain,      \* table state had the last set_state been made twice
    \* ---- Storage.metrics ------------------------------------------------
    m,               \* the dict the last metrics() call returned
    m2,              \* the dict the same call returns on a second store that
                     \* holds the same rows
    \* ---- one run of a CLI command (__main__.main) -------------------------
    cmd,             \* "none" | "metrics" | "sync-issues"
    exit,            \* what main() returned or raised
    limit,           \* args.issue_limit_repos
    repo_rows,       \* the local repo_rows: the repositories selected
    total_synced,    \* the local total_synced
    reported,        \* the local n of --sync-repos, which it prints
    fetched,         \* history: the repositories iter_repo_issues was
                     \* called for, in order
    fetchedItems,    \* history: what each of these calls gave back
    \* ---- a call of a transform (transforms.py) ---------------------------
    converted        \* what the last issue_json_to_row call returned or
                     \* raised

stateCallVars == <<lastKey, got, written, stateAgain>>
storageVars == <<repos, issues, lastCall, ret, reapplied,
                 submittedRepos, submittedIssues, state, lastLen,
                 firstOrphan,
                 stateCallVars>>
clientVars == <<op, pc, next_url, seen, all_items, requested, responses,
                outcome>>
metricsVars == <<m, m2>>
transformVars == <<converted>>
cliVars == <<cmd, exit, limit, repo_rows, total_synced, reported, fetched,
             fetchedItems>>
vars == <<repos, issues, lastCall, ret, reapplied, submittedRepos,
          submittedIssues, op, pc, next_url, seen, all_items, requested,
          responses, outcome, state, lastLen, firstOrphan, m,
          m2, cmd, exit, limit,
          repo_rows, total_synced, fetched, fetchedItems, lastKey, got,
          written, stateAgain, reported, converted>>

(***************************************************************************)
(* Bounds of the model.                                                    *)
(***************************************************************************)
MaxBatchLen == 2   \* the longest batch a caller submits
MaxRequests == 3   \* requests after which iter_repo_issues is cut off

None == <<>>
Some(v) == <<v>>

\* A call's result: a returned value or a raised exception.
Return(v) == [kind |-> "return", value |-> v, exc |-> "none"]
Raise(e) == [kind |-> "raise", value |-> 0, exc |-> e]
NoResult == [kind |-> "none", value |-> 0, exc |-> "none"]

(***************************************************************************)
(* Rows.  storage.py:9-35.                                                 *)
(***************************************************************************)
\* The ids and column values the callers of StorageSpec use.
RepoIds == {1, 2}
IssueIds == {1, 2}
StarValues == {0, 1}
IssueStates == {"open", "closed"}

RepoRow(id, stars) ==
    [repo_id |-> id, name |-> "a", full_name |-> "u/a", private |-> 0,
     html_url |-> "x", stargazers_count |-> stars, forks_count |-> 0,
     open_issues_count |-> 0, pushed_at |-> None]

IssueRow(id, rid, st) ==
    [issue_id |-> id, repo_id |-> rid, number |-> 1, title |-> "t",
     state |-> st, is_pull_request |-> 0,
     created_at |-> "2020-01-01T00:00:00Z",
     updated_at |-> "2020-01-01T00:00:00Z", closed_at |-> None,
     html_url |-> "url", user_login |-> None]

\* The rows the callers of StorageSpec submit.
RepoRows == {RepoRow(id, s) : id \in RepoIds, s \in StarValues}
IssueRows ==
    {IssueRow(id, rid, st) : id \in IssueIds, rid \in RepoIds,
                             st \in IssueStates}

RECURSIVE SeqsUpTo(_, _)
SeqsUpTo(S, n) ==
    IF n = 0 THEN {<<>>}
    ELSE LET shorter == SeqsUpTo(S, n - 1)
         IN  shorter \cup {Append(b, r) : b \in shorter, r \in S}

RepoBatches == SeqsUpTo(RepoRows, MaxBatchLen)
IssueBatches == SeqsUpTo(IssueRows, MaxBatchLen)

(***************************************************************************)
(* Storage.upsert_repos.  storage.py:104-143.                              *)
(***************************************************************************)

\* DELETE FROM repos before the INSERT: the table holds the new row alone.
InsertRepoStmt_Truncates(t, r) == {r}

\* A plain INSERT: a second row with the same id is a UNIQUE violation that
\* the statement skips (INSERT OR IGNORE).
InsertRepoStmt_KeepsOld(t, r) ==
    IF \E x \in t : x.repo_id = r.repo_id THEN t ELSE t \cup {r}

\* One execution of INSERT INTO repos ... ON CONFLICT(repo_id) DO UPDATE SET
\* <every non-key column> = excluded.<column>.
InsertRepoStmt(t, r) ==
    IF \E x \in t : x.repo_id = r.repo_id
    THEN {IF x.repo_id = r.repo_id
          THEN [x EXCEPT !.name = r.name,
                         !.full_name = r.full_name,
                         !.private = r.private,
                         !.html_url = r.html_url,
                         !.stargazers_count = r.stargazers_count,
                         !.forks_count = r.forks_count,
                         !.open_issues_count = r.open_issues_count,
                         !.pushed_at = r.pushed_at]
          ELSE x : x \in t}
    ELSE t \cup {r}

\* conn.executemany over the rows of the batch, in order.
RECURSIVE ExecuteManyRepos(_, _)
ExecuteManyRepos(t, rows_list) ==
    IF rows_list = <<>> THEN t
    ELSE ExecuteManyRepos(InsertRepoStmt(t, Head(rows_list)), Tail(rows_list))

\* The call returning the number of rows it changed, not len(rows_list).
upsert_repos_ReturnsChanged(t, rows_list) ==
    IF rows_list = <<>>
    THEN [table |-> t, ret |-> Return(0)]
    ELSE [table |-> ExecuteManyRepos(t, rows_list),
          ret |-> Return(Cardinality(ExecuteManyRepos(t, rows_list) \ t))]

\* The whole call: the table afterwards and the value returned.  The insert
\* has no failing case here: the rows are well typed and repos has no
\* reference to another table.
upsert_repos(t, rows_list) ==
    IF rows_list = <<>>
    THEN [table |-> t, ret |-> Return(0)]
    ELSE [table |-> ExecuteManyRepos(t, rows_list),
          ret |-> Return(Len(rows_list))]

(***************************************************************************)
(* Storage.upsert_issues.  storage.py:145-192.                             *)
(***************************************************************************)

\* PRAGMA foreign_keys left off: SQLite does not enforce the reference.
ForeignKeyHolds_PragmaOff(reposTable, r) == TRUE

\* FOREIGN KEY (repo_id) REFERENCES repos(repo_id), enforced because _connect
\* sets PRAGMA foreign_keys=ON.
ForeignKeyHolds(reposTable, r) ==
    \E x \in reposTable : x.repo_id = r.repo_id

\* One execution of INSERT INTO issues ... ON CONFLICT(issue_id) DO UPDATE
\* SET <every non-key column> = excluded.<column>.
InsertIssueStmt(t, r) ==
    IF \E x \in t : x.issue_id = r.issue_id
    THEN {IF x.issue_id = r.issue_id
          THEN [x EXCEPT !.repo_id = r.repo_id,
                         !.number = r.number,
                         !.title = r.title,
                         !.state = r.state,
                         !.is_pull_request = r.is_pull_request,
                         !.created_at = r.created_at,
                         !.updated_at = r.updated_at,
                         !.closed_at = r.closed_at,
                         !.html_url = r.html_url,
                         !.user_login = r.user_login]
          ELSE x : x \in t}
    ELSE t \cup {r}

\* conn.executemany: the statement runs for each row in order and stops at
\* the first row that violates the foreign key (sqlite3.IntegrityError).
RECURSIVE ExecuteManyIssues(_, _, _)
ExecuteManyIssues(reposTable, t, rows_list) ==
    IF rows_list = <<>> THEN [ok |-> TRUE, table |-> t]
    ELSE IF ~ForeignKeyHolds(reposTable, Head(rows_list))
         THEN [ok |-> FALSE, table |-> t]
         ELSE ExecuteManyIssues(reposTable,
                                InsertIssueStmt(t, Head(rows_list)),
                                Tail(rows_list))

\* The call returning the number of rows it changed, not len(rows_list).
upsert_issues_ReturnsChanged(reposTable, t, rows_list) ==
    IF rows_list = <<>>
    THEN [table |-> t, ret |-> Return(0)]
    ELSE LET done == ExecuteManyIssues(reposTable, t, rows_list)
         IN  IF done.ok
             THEN [table |-> done.table,
                   ret |-> Return(Cardinality(done.table \ t))]
             ELSE [table |-> t, ret |-> Raise("IntegrityError")]

\* The call without a transaction around the batch: the rows stored before
\* the failing row stay.
upsert_issues_NoRollback(reposTable, t, rows_list) ==
    IF rows_list = <<>>
    THEN [table |-> t, ret |-> Return(0)]
    ELSE LET done == ExecuteManyIssues(reposTable, t, rows_list)
         IN  IF done.ok
             THEN [table |-> done.table, ret |-> Return(Len(rows_list))]
             ELSE [table |-> done.table, ret |-> Raise("IntegrityError")]

\* The whole call.  "with self._connect() as conn" commits when the block
\* ends normally and rolls the transaction back when it raises.
upsert_issues(reposTable, t, rows_list) ==
    IF rows_list = <<>>
    THEN [table |-> t, ret |-> Return(0)]
    ELSE LET done == ExecuteManyIssues(reposTable, t, rows_list)
         IN  IF done.ok
             THEN [table |-> done.table, ret |-> Return(Len(rows_list))]
             ELSE [table |-> t, ret |-> Raise("IntegrityError")]

\* The keys and values the callers of set_state use.
StateKeys == {"repos_synced_at", "issues_synced_at"}
StateValues == {"2025-01-01T00:00:00Z", "2025-01-02T00:00:00Z"}

(***************************************************************************)
(* History: the row most recently submitted under each id by a call that   *)
(* succeeded.  Computed from the batch alone, never from the tables.       *)
(***************************************************************************)
LastWithRepoId(rows_list, id) ==
    LET at == {k \in 1..Len(rows_list) : rows_list[k].repo_id = id}
    IN  IF at = {} THEN None
        ELSE Some(rows_list[CHOOSE k \in at : \A j \in at : j <= k])

LastWithIssueId(rows_list, id) ==
    LET at == {k \in 1..Len(rows_list) : rows_list[k].issue_id = id}
    IN  IF at = {} THEN None
        ELSE Some(rows_list[CHOOSE k \in at : \A j \in at : j <= k])

\* The place of the first row of the batch whose repo_id no row of repos
\* has, 0 when every row references a stored repository.
FirstOrphan(reposTable, rows_list) ==
    LET at == {k \in 1..Len(rows_list) :
                   \A x \in reposTable : x.repo_id # rows_list[k].repo_id}
    IN  IF at = {} THEN 0 ELSE CHOOSE k \in at : \A j \in at : k <= j

(***************************************************************************)
(* The storage actions.                                                    *)
(***************************************************************************)
\* No get_state / set_state call made yet on the table as it stands.
StateCallIdle ==
    /\ lastKey = "none"
    /\ got = None
    /\ written = state
    /\ stateAgain = state

StorageInit ==
    /\ repos = {}
    /\ issues = {}
    /\ lastCall = "none"
    /\ ret = NoResult
    /\ reapplied = [table |-> {}, ret |-> NoResult]
    /\ submittedRepos = [id \in RepoIds |-> None]
    /\ submittedIssues = [id \in IssueIds |-> None]
    /\ state = [key \in StateKeys |-> None]
    /\ lastLen = 0
    /\ firstOrphan = 0
    /\ StateCallIdle

UpsertRepos(rows_list) ==
    LET first == upsert_repos(repos, rows_list)
    IN  /\ repos' = first.table
        /\ ret' = first.ret
        /\ lastCall' = "upsert_repos"
        /\ reapplied' = upsert_repos(first.table, rows_list)
        /\ submittedRepos' =
               [id \in RepoIds |->
                   LET last == LastWithRepoId(rows_list, id)
                   IN  IF last = None THEN submittedRepos[id] ELSE last]
        /\ lastLen' = Len(rows_list)
        /\ firstOrphan' = 0
        /\ UNCHANGED <<issues, submittedIssues, state, stateCallVars>>

UpsertIssues(rows_list) ==
    LET first == upsert_issues(repos, issues, rows_list)
    IN  /\ issues' = first.table
        /\ ret' = first.ret
        /\ lastCall' = "upsert_issues"
        /\ reapplied' = upsert_issues(repos, first.table, rows_list)
        /\ submittedIssues' =
               IF first.ret.kind = "raise" THEN submittedIssues
               ELSE [id \in IssueIds |->
                        LET last == LastWithIssueId(rows_list, id)
                        IN  IF last = None THEN submittedIssues[id] ELSE last]
        /\ lastLen' = Len(rows_list)
        /\ firstOrphan' = FirstOrphan(repos, rows_list)
        /\ UNCHANGED <<repos, submittedRepos, state, stateCallVars>>

\* Storage.get_state: SELECT value FROM state WHERE key = ?, then
\* "row[0] if row else None".
get_state(t, key) == t[key]

\* INSERT OR IGNORE INTO state: a key that is there keeps its value.
set_state_KeepsOld(t, key, value) ==
    IF t[key] = None THEN [t EXCEPT ![key] = Some(value)] ELSE t

\* Storage.set_state: INSERT INTO state(key, value) ... ON CONFLICT(key) DO
\* UPDATE SET value=excluded.value.
set_state(t, key, value) == [t EXCEPT ![key] = Some(value)]

GetState(key) ==
    /\ got' = get_state(state, key)
    /\ lastKey' = key
    /\ lastCall' = "get_state"
    /\ ret' = NoResult
    /\ UNCHANGED <<repos, issues, reapplied, submittedRepos,
                   submittedIssues, state, lastLen, firstOrphan,
                   written, stateAgain>>

SetState(key, value) ==
    /\ state' = set_state(state, key, value)
    /\ stateAgain' = set_state(set_state(state, key, value), key, value)
    /\ written' = [written EXCEPT ![key] = Some(value)]
    /\ lastKey' = key
    /\ got' = None
    /\ lastCall' = "set_state"
    /\ ret' = NoResult
    /\ UNCHANGED <<repos, issues, reapplied, submittedRepos,
                   submittedIssues, lastLen, firstOrphan>>

(***************************************************************************)
(* The GitHub API as the client sees it.  A string is the sequence of its  *)
(* tokens: the punctuation of a Link header, a relation, or a URL.         *)
(***************************************************************************)
RelNext == "rel=\"next\""
RelLast == "rel=\"last\""
RelPrev == "rel=\"prev\""

\* The URLs of the pages of one listing; a listing starts at FirstUrl
\* (...?per_page=100&page=1, github_client.py:92 and :142).
Urls == {"page=1", "page=2", "page=3"}
FirstUrl == <<"page=1">>
\* The paths of the two single-request operations.
UserPath == <<"/user">>
RateLimitPath == <<"/rate_limit">>

\* One segment "<url>; rel" of a Link header.
Segment(url, rel) == <<"<", url, ">", ";", " ", rel>>
Comma == <<",", " ">>

LinkHeaders ==
    { None,
      Some(Segment("page=2", RelNext) \o Comma \o Segment("page=3", RelLast)),
      Some(Segment("page=1", RelPrev) \o Comma \o Segment("page=3", RelNext)),
      Some(Segment("page=1", RelNext)),
      Some(Segment("page=3", RelLast)),
      Some(<<"page=2", ";", " ", RelNext>>),
      Some(<<"<", ">", ";", " ", RelNext>>),
      Some(<<>>) }

\* A response body: JSON that is a list of items, JSON that is an object, or
\* text that is no JSON at all.
Body(type, items) == [type |-> type, items |-> items]
ListBodies == {Body("list", <<"i1">>), Body("list", <<"i2", "i3">>)}
OtherBodies == {Body("object", <<>>), Body("invalid", <<>>)}
JsonNone == Body("none", <<>>)

HeaderNames == {"Link", "X-RateLimit-Remaining", "X-RateLimit-Reset"}
Headers(link, remaining, reset) ==
    [n \in HeaderNames |->
        IF n = "Link" THEN link
        ELSE IF n = "X-RateLimit-Remaining" THEN remaining ELSE reset]

Response(status, headers, body) ==
    [kind |-> "response", status |-> status, headers |-> headers,
     body |-> body]
\* client.get / client.request raising instead of answering.
TransportFailure(exception) ==
    [kind |-> exception, status |-> 0, headers |-> Headers(None, None, None),
     body |-> JsonNone]

ResetTime == Some("1700000000")

Answers ==
    {Response(200, Headers(l, None, None), b) :
         l \in LinkHeaders, b \in ListBodies}
    \cup {Response(200, Headers(l, None, None), b) :
         l \in {None, Some(Segment("page=2", RelNext))}, b \in OtherBodies}
    \cup {Response(401, Headers(None, r, None), Body("object", <<>>)) :
         r \in {None, Some("0")}}
    \cup {Response(403, Headers(None, r, ResetTime), Body("object", <<>>)) :
         r \in {None, Some("0"), Some("57")}}
    \cup {Response(s, Headers(None, None, None), Body("object", <<>>)) :
         s \in {400, 404, 500}}
    \cup {TransportFailure(e) : e \in {"TimeoutException", "ConnectError"}}

\* resp.headers.get(name)
HeadersGet(headers, name) ==
    IF name \in DOMAIN headers THEN headers[name] ELSE None

(***************************************************************************)
(* What a client operation gives back.                                     *)
(***************************************************************************)
Ok(json) ==
    [kind |-> "return", exc |-> "none", status |-> 0, reset |-> None,
     value |-> json]
\* An exception; status and reset are what its message carries.
Err(exception, status, reset) ==
    [kind |-> "raise", exc |-> exception, status |-> status, reset |-> reset,
     value |-> JsonNone]
NoOutcome ==
    [kind |-> "none", exc |-> "none", status |-> 0, reset |-> None,
     value |-> JsonNone]

(***************************************************************************)
(* _parse_next_link.  github_client.py:180-193.                            *)
(***************************************************************************)

\* str.split(sep): the pieces of s between the occurrences of sep.
RECURSIVE Split(_, _)
Split(s, sep) ==
    IF \A i \in 1..Len(s) : s[i] # sep THEN <<s>>
    ELSE LET k == CHOOSE i \in 1..Len(s) :
                      s[i] = sep /\ \A j \in 1..(i - 1) : s[j] # sep
         IN  <<SubSeq(s, 1, k - 1)>> \o Split(SubSeq(s, k + 1, Len(s)), sep)

\* str.strip()
RECURSIVE Strip(_)
Strip(s) ==
    IF s = <<>> THEN s
    ELSE IF Head(s) = " " THEN Strip(Tail(s))
    ELSE IF s[Len(s)] = " " THEN Strip(SubSeq(s, 1, Len(s) - 1))
    ELSE s

\* 'rel="next"' in part
Contains(part, token) == \E i \in 1..Len(part) : part[i] = token

\* The for loop over parts, from the k-th part on.
RECURSIVE NextLinkFrom(_, _)
NextLinkFrom(parts, k) ==
    IF k > Len(parts) THEN None
    ELSE LET part == Strip(parts[k])
             left == Strip(Split(part, ";")[1])
         IN  IF /\ Contains(part, RelNext)
                /\ left # <<>>
                /\ Head(left) = "<"
                /\ left[Len(left)] = ">"
             THEN Some(SubSeq(left, 2, Len(left) - 1))
             ELSE NextLinkFrom(parts, k + 1)

\* The first segment's target, whatever its relation.
_parse_next_link_AnyRel(link_header) ==
    IF link_header = None \/ link_header = Some(<<>>) THEN None
    ELSE LET left == Strip(Split(Split(link_header[1], ",")[1], ";")[1])
         IN  IF left # <<>> /\ Head(left) = "<" /\ left[Len(left)] = ">"
             THEN Some(SubSeq(left, 2, Len(left) - 1))
             ELSE None

_parse_next_link(link_header) ==
    IF link_header = None \/ link_header = Some(<<>>) THEN None
    ELSE NextLinkFrom(Split(link_header[1], ","), 1)

\* "while next_url": None and the empty string both end the loop.
Truthy(url) == url # None /\ url # Some(<<>>)

(***************************************************************************)
(* The classification of a response, written three times in the client     *)
(* with three different names for the remaining-quota header.               *)
(***************************************************************************)
RequestRawRemainingKey == "X-RateLimit-Remmaining"
UserReposRemainingKey == "X-RateLimt-Remaining"
RepoIssuesRemainingKey == "X-RateLimit-Remaining"

\* The 401 branch missing: a 401 falls through to "status_code >= 400".
StatusCheck_NoAuthBranch(resp, remaining_key) ==
    IF resp.status = 403
    THEN IF HeadersGet(resp.headers, remaining_key) = Some("0")
         THEN Err("GitHubRateLimitError", 0,
                  HeadersGet(resp.headers, "X-RateLimit-Reset"))
         ELSE Err("GitHubHTTPError", 403, None)
    ELSE IF resp.status >= 400
    THEN Err("GitHubHTTPError", resp.status, None)
    ELSE NoOutcome

\* "status_code >= 500" for "status_code >= 400".
StatusCheck_ServerErrorsOnly(resp, remaining_key) ==
    IF resp.status = 401 THEN Err("GitHubAuthError", 0, None)
    ELSE IF resp.status = 403
    THEN IF HeadersGet(resp.headers, remaining_key) = Some("0")
         THEN Err("GitHubRateLimitError", 0,
                  HeadersGet(resp.headers, "X-RateLimit-Reset"))
         ELSE Err("GitHubHTTPError", 403, None)
    ELSE IF resp.status >= 500
    THEN Err("GitHubHTTPError", resp.status, None)
    ELSE NoOutcome

StatusCheck(resp, remaining_key) ==
    IF resp.status = 401 THEN Err("GitHubAuthError", 0, None)
    ELSE IF resp.status = 403
    THEN IF HeadersGet(resp.headers, remaining_key) = Some("0")
         THEN Err("GitHubRateLimitError", 0,
                  HeadersGet(resp.headers, "X-RateLimit-Reset"))
         ELSE Err("GitHubHTTPError", 403, None)
    ELSE IF resp.status >= 400
    THEN Err("GitHubHTTPError", resp.status, None)
    ELSE NoOutcome

\* except httpx.TimeoutException / except httpx.HTTPError
TransportError(answer) == Err("GitHubHTTPError", 0, None)

\* _request_raw: the exception it raises, or NoOutcome when it returns resp.
_request_raw(answer) ==
    IF answer.kind # "response" THEN TransportError(answer)
    ELSE StatusCheck(answer, RequestRawRemainingKey)

\* _request_json: _request_raw(...).json()
_request_json(answer) ==
    IF _request_raw(answer).kind = "raise" THEN _request_raw(answer)
    ELSE IF answer.body.type = "invalid" THEN Err("JSONDecodeError", 0, None)
    ELSE Ok(answer.body)

\* One request of a listing up to "items = resp.json()" and the isinstance
\* test: the exception it raises, or NoOutcome when the page is good.
PageError(answer, remaining_key) ==
    IF answer.kind # "response" THEN TransportError(answer)
    ELSE IF StatusCheck(answer, remaining_key).kind = "raise"
    THEN StatusCheck(answer, remaining_key)
    ELSE IF answer.body.type = "invalid" THEN Err("JSONDecodeError", 0, None)
    ELSE IF answer.body.type # "list" THEN Err("GitHubHTTPError", 0, None)
    ELSE NoOutcome

\* The loop ends by handing back what it has, instead of raising.
Propagate_ReturnsPartial(exception, items) ==
    IF items = <<>> THEN exception ELSE Ok(Body("list", items))

\* raise: the exception leaves the function and the local all_items is lost.
Propagate(exception, items) == exception

(***************************************************************************)
(* The client actions.                                                     *)
(***************************************************************************)
ClientIdle ==
    /\ op = "none"
    /\ pc = "idle"
    /\ next_url = None
    /\ seen = {}
    /\ all_items = <<>>
    /\ requested = <<>>
    /\ responses = <<>>
    /\ outcome = NoOutcome

\* A caller starts one operation.
Call ==
    /\ pc = "idle"
    /\ op' \in {"get_viewer", "get_rate_limit", "iter_user_repos",
                "iter_repo_issues"}
    /\ pc' = "running"
    /\ next_url' = IF op' \in {"iter_user_repos", "iter_repo_issues"}
                   THEN Some(FirstUrl) ELSE None
    /\ UNCHANGED <<seen, all_items, requested, responses, outcome>>

\* get_viewer, get_rate_limit: _request_json = _request_raw(...).json()
RequestJson ==
    /\ pc = "running"
    /\ op \in {"get_viewer", "get_rate_limit"}
    /\ \E answer \in Answers :
        /\ requested' = Append(requested, IF op = "get_viewer"
                                          THEN UserPath ELSE RateLimitPath)
        /\ responses' = Append(responses, answer)
        /\ outcome' = _request_json(answer)
    /\ pc' = "done"
    /\ UNCHANGED <<op, next_url, seen, all_items>>

\* The cycle guard never fires.
UserReposSeenBefore_NoGuard(url, seenUrls) == FALSE

\* if next_url in seen
UserReposSeenBefore(url, seenUrls) == url \in seenUrls

\* iter_user_repos: the loop is left because next_url is None or "".
UserReposReturn ==
    /\ pc = "running" /\ op = "iter_user_repos"
    /\ ~Truthy(next_url)
    /\ outcome' = Ok(Body("list", all_items))
    /\ pc' = "done"
    /\ UNCHANGED <<op, next_url, seen, all_items, requested, responses>>

\* iter_user_repos: raise RuntimeError("Already seen URL ...")
UserReposCycle ==
    /\ pc = "running" /\ op = "iter_user_repos"
    /\ Truthy(next_url)
    /\ UserReposSeenBefore(next_url[1], seen)
    /\ outcome' = Propagate(Err("RuntimeError", 0, None), all_items)
    /\ pc' = "done"
    /\ UNCHANGED <<op, next_url, seen, all_items, requested, responses>>

\* iter_user_repos: one pass of the loop body that issues a request.
UserReposPage ==
    /\ pc = "running" /\ op = "iter_user_repos"
    /\ Truthy(next_url)
    /\ ~UserReposSeenBefore(next_url[1], seen)
    /\ seen' = seen \cup {next_url[1]}
    /\ \E answer \in Answers :
        /\ requested' = Append(requested, next_url[1])
        /\ responses' = Append(responses, answer)
        /\ IF PageError(answer, UserReposRemainingKey).kind = "raise"
           THEN /\ outcome' = Propagate(PageError(answer,
                                           UserReposRemainingKey), all_items)
                /\ pc' = "done"
                /\ UNCHANGED <<all_items, next_url>>
           ELSE /\ all_items' = all_items \o answer.body.items
                /\ next_url' =
                       _parse_next_link(HeadersGet(answer.headers, "Link"))
                /\ UNCHANGED <<outcome, pc>>
    /\ UNCHANGED op

\* iter_repo_issues: the loop is left because next_url is None or "".
RepoIssuesReturn ==
    /\ pc = "running" /\ op = "iter_repo_issues"
    /\ ~Truthy(next_url)
    /\ outcome' = Ok(Body("list", all_items))
    /\ pc' = "done"
    /\ UNCHANGED <<op, next_url, seen, all_items, requested, responses>>

\* iter_repo_issues: one pass of the loop body; there is no seen set.
RepoIssuesPage ==
    /\ pc = "running" /\ op = "iter_repo_issues"
    /\ Truthy(next_url)
    /\ Len(requested) < MaxRequests
    /\ \E answer \in Answers :
        /\ requested' = Append(requested, next_url[1])
        /\ responses' = Append(responses, answer)
        /\ IF PageError(answer, RepoIssuesRemainingKey).kind = "raise"
           THEN /\ outcome' = Propagate(PageError(answer,
                                           RepoIssuesRemainingKey), all_items)
                /\ pc' = "done"
                /\ UNCHANGED <<all_items, next_url>>
           ELSE /\ all_items' = all_items \o answer.body.items
                /\ next_url' =
                       _parse_next_link(HeadersGet(answer.headers, "Link"))
                /\ UNCHANGED <<outcome, pc>>
    /\ UNCHANGED <<op, seen>>

(***************************************************************************)
(* Storage.metrics.  storage.py:194-236.                                   *)
(***************************************************************************)
\* The stores MetricsSpec queries: up to two repositories that carry the
\* same or different names, up to three issues of any kind.
FullNames == {"u/a", "u/b"}
MetricsIssueIds == {101, 102, 103}
MetricsStates == {"open", "closed", "unknown"}

RepoRowNamed(id, full_name, stars, forks) ==
    [RepoRow(id, stars) EXCEPT !.full_name = full_name,
                               !.forks_count = forks]
IssueRowOfKind(id, rid, st, pr) ==
    [IssueRow(id, rid, st) EXCEPT !.is_pull_request = pr]

\* A repos table: at most one row per repo_id (PRIMARY KEY).
MetricsReposTables ==
    {{RepoRowNamed(id, pick[id][1], 0, 0) :
          id \in {x \in RepoIds : pick[x] # None}} :
         pick \in [RepoIds -> {None} \cup {Some(n) : n \in FullNames}]}

\* An issues table over a repos table: at most one row per issue_id
\* (PRIMARY KEY), each referencing a stored repository (FOREIGN KEY).
MetricsIssuesTables(reposTable) ==
    LET rids == {r.repo_id : r \in reposTable}
        kinds == {<<rid, st, pr>> : rid \in rids, st \in MetricsStates,
                                    pr \in {0, 1}}
    IN  {{IssueRowOfKind(id, pick[id][1][1], pick[id][1][2], pick[id][1][3]) :
              id \in {x \in MetricsIssueIds : pick[x] # None}} :
             pick \in [MetricsIssueIds ->
                          {None} \cup {Some(k) : k \in kinds}]}

\* LIMIT 5 of the top_open_issues query.
TopLimit == 5

\* The is_pull_request condition left out of the WHERE clause.
CountAnyKind(t, pr, st) ==
    Cardinality({i \in t : i.state = st})

\* SELECT COUNT(*) FROM issues WHERE is_pull_request=pr AND state=st
CountWhere(t, pr, st) ==
    Cardinality({i \in t : i.is_pull_request = pr /\ i.state = st})

\* FROM issues i JOIN repos r ON r.repo_id = i.repo_id
\* WHERE i.is_pull_request=0 AND i.state='open': the joined rows.
OpenIssueJoin(reposTable, t) ==
    {<<i, r>> \in t \X reposTable :
         r.repo_id = i.repo_id /\ i.is_pull_request = 0 /\ i.state = "open"}

\* GROUP BY r.full_name, SELECT r.full_name, COUNT(*): one row
\* (full_name, open_issues) per name among the joined rows.
OpenIssueGroups(reposTable, t) ==
    LET joined == OpenIssueJoin(reposTable, t)
    IN  {<<n, Cardinality({j \in joined : j[2].full_name = n})>> :
             n \in {j[2].full_name : j \in joined}}

\* The orders in which a set of rows can come back.
Orders(rows) ==
    {o \in [1..Cardinality(rows) -> rows] :
         \A i, j \in 1..Cardinality(rows) : o[i] = o[j] => i = j}

\* ORDER BY open_issues DESC.  SQLite leaves the order of rows with equal
\* keys undefined: every order that is descending in the count is possible.
OrderByOpenIssuesDesc(rows) ==
    {o \in Orders(rows) :
         \A i, j \in 1..Len(o) : i < j => o[i][2] >= o[j][2]}

\* LIMIT n; a negative n is no limit.
Limit(rows, n) ==
    IF n < 0 \/ n >= Len(rows) THEN rows ELSE SubSeq(rows, 1, n)

\* The dicts metrics() can return for these tables.
metrics(reposTable, t) ==
    {[total |-> Cardinality(t),
      issues_open |-> CountWhere(t, 0, "open"),
      issues_closed |-> CountWhere(t, 0, "closed"),
      prs_open |-> CountWhere(t, 1, "open"),
      prs_closed |-> CountWhere(t, 1, "closed"),
      top_open_issues |-> Limit(o, TopLimit)] :
         o \in OrderByOpenIssuesDesc(OpenIssueGroups(reposTable, t))}

\* No metrics() result at hand.
NoMetrics ==
    [total |-> 0, issues_open |-> 0, issues_closed |-> 0,
     prs_open |-> 0, prs_closed |-> 0, top_open_issues |-> <<>>]

MetricsIdle ==
    /\ m = NoMetrics
    /\ m2 = NoMetrics


\* store.metrics(), on this store and on a second one with the same rows.
MetricsQuery ==
    /\ m' \in metrics(repos, issues)
    /\ m2' \in metrics(repos, issues)
    /\ lastCall' = "metrics"
    /\ ret' = NoResult
    /\ UNCHANGED <<repos, issues, reapplied, submittedRepos,
                   submittedIssues, state, lastLen, firstOrphan,
                   stateCallVars>>

(***************************************************************************)
(* main(): the exception handler and the --metrics command.                *)
(* __main__.py:42-44, 106-120.                                             *)
(***************************************************************************)
GitHubErrors ==
    {"GitHubError", "GitHubAuthError", "GitHubRateLimitError",
     "GitHubHTTPError"}

\* The exception is caught where it is raised and the command goes on.
MainHandler_Swallows(exception) == NoResult

\* except GitHubError: print and return 1; any other exception leaves main.
MainHandler(exception) ==
    IF exception \in GitHubErrors THEN Return(1) ELSE Raise(exception)

\* The keys the --metrics command reads, in the order it reads them.
MetricsCommandKeys == <<"total", "open", "closed", "top_open">>

\* d[key] for each key in turn: KeyError at the first key d does not have.
RECURSIVE ReadKeys(_, _)
ReadKeys(d, keys) ==
    IF keys = <<>> THEN Return(0)
    ELSE IF Head(keys) \notin DOMAIN d THEN Raise("KeyError")
    ELSE ReadKeys(d, Tail(keys))

\* if args.metrics: m = store.metrics(); print(m[...]) ...; return 0
MetricsCommandResult(d) ==
    IF ReadKeys(d, MetricsCommandKeys).kind = "raise"
    THEN MainHandler(ReadKeys(d, MetricsCommandKeys).exc)
    ELSE Return(0)

CliIdle ==
    /\ cmd = "none"
    /\ exit = NoResult
    /\ limit = 0
    /\ repo_rows = <<>>
    /\ total_synced = 0
    /\ reported = 0
    /\ fetched = <<>>
    /\ fetchedItems = <<>>

CliReset ==
    /\ cmd' = "none"
    /\ exit' = NoResult
    /\ limit' = 0
    /\ repo_rows' = <<>>
    /\ total_synced' = 0
    /\ reported' = 0
    /\ fetched' = <<>>
    /\ fetchedItems' = <<>>

MetricsCommand ==
    /\ MetricsQuery
    /\ cmd' = "metrics"
    /\ exit' = MetricsCommandResult(m')
    /\ UNCHANGED <<limit, repo_rows, total_synced, reported, fetched,
                   fetchedItems>>

(***************************************************************************)
(* issue_json_to_row.  transforms.py:20-44.                                *)
(***************************************************************************)
\* A JSON value as Python holds it: an int, or a dict from keys to values.
JInt(n) == [type |-> "int", int |-> n, fields |-> <<>>]
JObject(fields) == [type |-> "object", int |-> 0, fields |-> fields]

\* dict.get(key) or default
GetOr(d, key, default) ==
    IF key \in DOMAIN d THEN d[key] ELSE default

\* What a conversion gives: a row, or the exception it raised.
Converted(row) == [kind |-> "return", exc |-> "none", row |-> row]
NotConverted(exception) ==
    [kind |-> "raise", exc |-> exception, row |-> IssueRow(0, 0, "none")]

\* No conversion made yet.
TransformIdle == converted = NotConverted("none")

\* The keys read as item[key].
IssueMandatoryKeys == {"id", "number", "created_at", "updated_at", "html_url"}

issue_json_to_row(repo_id, item) ==
    IF item.type # "object"
    THEN NotConverted("TypeError")      \* "pull_request" in item
    ELSE IF \E key \in IssueMandatoryKeys : key \notin DOMAIN item.fields
    THEN NotConverted("KeyError")
    ELSE Converted(
           [issue_id |-> item.fields["id"],
            repo_id |-> repo_id,
            number |-> item.fields["number"],
            title |-> GetOr(item.fields, "title", ""),
            state |-> GetOr(item.fields, "state", "unknown"),
            is_pull_request |->
                IF "pull_request" \in DOMAIN item.fields THEN 1 ELSE 0,
            created_at |-> item.fields["created_at"],
            updated_at |-> item.fields["updated_at"],
            closed_at |-> GetOr(item.fields, "closed_at", None),
            html_url |-> item.fields["html_url"],
            user_login |-> None])

(***************************************************************************)
(* main(): the --sync-issues command.  __main__.py:46-78.                  *)
(***************************************************************************)
\* The stores SyncSpec runs on: up to three repositories, each with its own
\* name, and possibly an issue stored by an earlier run.
SyncRepoIds == {1, 2, 3}
SyncFullName(id) == IF id = 1 THEN "u/a" ELSE IF id = 2 THEN "u/b" ELSE "u/c"
SyncRanks == {<<0, 0>>, <<0, 1>>, <<1, 0>>}

SyncReposTables ==
    {{RepoRowNamed(id, SyncFullName(id), pick[id][1][1], pick[id][1][2]) :
          id \in {x \in SyncRepoIds : pick[x] # None}} :
         pick \in [SyncRepoIds -> {None} \cup {Some(r) : r \in SyncRanks}]}

SyncIssuesTables(reposTable) ==
    {{}} \cup {{IssueRow(1, r.repo_id, "open")} : r \in reposTable}

\* The values of --issue-limit-repos (type=int).
SyncLimits == {-1, 0, 1, 2}

\* The items GitHub lists for a repository: an open issue and a closed pull
\* request, with ids of their own.
IssueItem(id, number, st) ==
    JObject([id |-> id, number |-> number, title |-> "t", state |-> st,
             created_at |-> "2020-01-01T00:00:00Z",
             updated_at |-> "2020-01-02T00:00:00Z", html_url |-> "url"])
PullRequestItem(id, number, st) ==
    JObject([id |-> id, number |-> number, title |-> "t", state |-> st,
             created_at |-> "2020-01-01T00:00:00Z",
             updated_at |-> "2020-01-02T00:00:00Z", html_url |-> "url",
             pull_request |-> "url"])

\* What client.iter_repo_issues can give back for a repository: a list of
\* items, or one of the exceptions of RepoIssuesPage.
FetchResults(repo_id) ==
    {Ok(Body("list", items)) :
         items \in {<<>>,
                    <<IssueItem(10 * repo_id + 1, 1, "open")>>,
                    <<IssueItem(10 * repo_id + 1, 1, "open"),
                      PullRequestItem(10 * repo_id + 2, 2, "closed")>>}}
    \cup {Err(e, 0, None) :
              e \in {"GitHubAuthError", "GitHubRateLimitError",
                     "GitHubHTTPError", "JSONDecodeError"}}

\* SELECT repo_id, full_name FROM repos
SelectIdAndName(reposTable) == {<<r.repo_id, r.full_name>> : r \in reposTable}

\* The row of repos a selected (repo_id, full_name) comes from.
RepoOf(reposTable, selected) ==
    CHOOSE r \in reposTable : r.repo_id = selected[1]

\* ORDER BY stargazers_count DESC, forks_count DESC.  SQLite leaves the order
\* of rows with equal keys undefined.
OrderByStarsForksDesc(reposTable) ==
    {o \in Orders(SelectIdAndName(reposTable)) :
         \A i, j \in 1..Len(o) :
             i < j =>
                 LET a == RepoOf(reposTable, o[i])
                     b == RepoOf(reposTable, o[j])
                 IN  \/ a.stargazers_count > b.stargazers_count
                     \/ /\ a.stargazers_count = b.stargazers_count
                        /\ a.forks_count >= b.forks_count}

\* What line 72 passes as item for the element i of items: the literal 1.
ItemArgument(i) == JInt(1)

\* rows = [issue_json_to_row(repo_id=repo_id, item=1) for i in items]: the
\* rows, or the first exception a conversion raised.
TransformIssues(repo_id, items) ==
    LET each == [k \in 1..Len(items) |->
                    issue_json_to_row(repo_id, ItemArgument(items[k]))]
        failed == {k \in 1..Len(items) : each[k].kind = "raise"}
    IN  IF failed # {}
        THEN [kind |-> "raise",
              exc |-> each[CHOOSE k \in failed : \A j \in failed : k <= j].exc,
              rows |-> <<>>]
        ELSE [kind |-> "return", exc |-> "none",
              rows |-> [k \in 1..Len(items) |-> each[k].row]]

\* if args.sync_issues: ... repo_rows = conn.execute(SELECT ...).fetchall()
SyncStart ==
    /\ cmd = "none"
    /\ cmd' = "sync-issues"
    /\ limit' \in SyncLimits
    /\ repo_rows' \in {Limit(o, limit') : o \in OrderByStarsForksDesc(repos)}
    /\ total_synced' = 0
    /\ UNCHANGED <<exit, reported, fetched, fetchedItems, storageVars>>

\* One pass of "for repo_id, full_name in repo_rows": fetch, transform,
\* upsert, add to the total.  An exception leaves the loop and main().
SyncRepo ==
    /\ cmd = "sync-issues" /\ exit = NoResult
    /\ Len(fetched) < Len(repo_rows)
    /\ LET repo_id == repo_rows[Len(fetched) + 1][1]
           full_name == repo_rows[Len(fetched) + 1][2]
       IN  \E items \in FetchResults(repo_id) :
               /\ fetched' = Append(fetched, full_name)
               /\ fetchedItems' = Append(fetchedItems, items)
               /\ IF items.kind = "raise"
                  THEN /\ exit' = MainHandler(items.exc)
                       /\ UNCHANGED <<issues, total_synced, lastCall, ret,
                                      lastLen, firstOrphan>>
                  ELSE LET rows == TransformIssues(repo_id, items.value.items)
                           done == upsert_issues(repos, issues, rows.rows)
                       IN  IF rows.kind = "raise"
                           THEN /\ exit' = MainHandler(rows.exc)
                                /\ UNCHANGED <<issues, total_synced,
                                               lastCall, ret, lastLen,
                                               firstOrphan>>
                           ELSE /\ issues' = done.table
                                /\ ret' = done.ret
                                /\ lastCall' = "upsert_issues"
                                /\ lastLen' = Len(rows.rows)
                                /\ firstOrphan' =
                                       FirstOrphan(repos, rows.rows)
                                /\ IF done.ret.kind = "raise"
                                   THEN /\ exit' = MainHandler(done.ret.exc)
                                        /\ UNCHANGED total_synced
                                   ELSE /\ total_synced' =
                                               total_synced + done.ret.value
                                        /\ UNCHANGED exit
    /\ UNCHANGED <<cmd, limit, repo_rows, repos, reapplied, submittedRepos,
                   submittedIssues, state, stateCallVars, reported>>

\* The loop is over: print the total, return 0.
SyncReturn ==
    /\ cmd = "sync-issues" /\ exit = NoResult
    /\ Len(fetched) = Len(repo_rows)
    /\ exit' = Return(0)
    /\ UNCHANGED <<cmd, limit, repo_rows, total_synced, reported, fetched,
                   fetchedItems, storageVars>>

(***************************************************************************)
(* repo_json_to_row.  transforms.py:6-17.                                  *)
(***************************************************************************)
\* The keys read as item[key].
RepoMandatoryKeys == {"id", "name", "full_name", "html_url"}

\* int() of a JSON integer and str() of a JSON string give the value itself;
\* GitHub sends id and the counts as integers, the names and the URL as
\* strings.
repo_json_to_row(item) ==
    IF item.type # "object"
    THEN NotConverted("TypeError")      \* item["id"]
    ELSE IF \E key \in RepoMandatoryKeys : key \notin DOMAIN item.fields
    THEN NotConverted("KeyError")
    ELSE Converted(
           [repo_id |-> item.fields["id"],
            name |-> item.fields["name"],
            full_name |-> item.fields["full_name"],
            private |-> IF GetOr(item.fields, "private", FALSE) THEN 1 ELSE 0,
            html_url |-> item.fields["html_url"],
            stargazers_count |-> GetOr(item.fields, "stargazers_count", 0),
            forks_count |-> GetOr(item.fields, "forks_count", 0),
            open_issues_count |-> GetOr(item.fields, "open_issues_count", 0),
            pushed_at |-> GetOr(item.fields, "pushed_at", None)])

(***************************************************************************)
(* main(): the --sync-repos command.  __main__.py:93-98.                   *)
(***************************************************************************)
\* The items GitHub lists for the account: a repository with every field,
\* one with the mandatory fields alone, and one with a mandatory field left
\* out.
RepoItem(id, stars) ==
    JObject([id |-> id, name |-> "a", full_name |-> "u/a", private |-> FALSE,
             html_url |-> "x", stargazers_count |-> stars, forks_count |-> 0,
             open_issues_count |-> 0, pushed_at |-> None])
MinimalRepoItem(id) ==
    JObject([id |-> id, name |-> "a", full_name |-> "u/a", html_url |-> "x"])
Without(item, key) ==
    JObject([k \in DOMAIN item.fields \ {key} |-> item.fields[k]])

RepoItems ==
    {RepoItem(id, s) : id \in RepoIds, s \in StarValues}
    \cup {MinimalRepoItem(2)}
    \cup {Without(RepoItem(1, 1), key) : key \in RepoMandatoryKeys}

\* The exceptions iter_user_repos raises: those of UserReposPage and the
\* RuntimeError of UserReposCycle.
UserReposErrors ==
    {"GitHubAuthError", "GitHubRateLimitError", "GitHubHTTPError",
     "JSONDecodeError", "RuntimeError"}

\* What client.iter_user_repos can give back: the list of the items of every
\* page, or an exception.
UserReposResults ==
    {Ok(Body("list", items)) : items \in SeqsUpTo(RepoItems, MaxBatchLen)}
    \cup {Err(e, 0, None) : e \in UserReposErrors}

\* The rows of the first k conversions that returned one.
RECURSIVE KeptRows(_, _)
KeptRows(each, k) ==
    IF k = 0 THEN <<>>
    ELSE IF each[k].kind = "raise" THEN KeptRows(each, k - 1)
    ELSE Append(KeptRows(each, k - 1), each[k].row)

\* The conversions that skip an item they cannot convert and go on.
TransformRepos_SkipsFaulty(items) ==
    [kind |-> "return", exc |-> "none",
     rows |-> KeptRows([k \in 1..Len(items) |-> repo_json_to_row(items[k])],
                       Len(items))]

\* rows = [repo_json_to_row(i) for i in items]: the rows, or the first
\* exception a conversion raised.
TransformRepos(items) ==
    LET each == [k \in 1..Len(items) |-> repo_json_to_row(items[k])]
        failed == {k \in 1..Len(items) : each[k].kind = "raise"}
    IN  IF failed # {}
        THEN [kind |-> "raise",
              exc |-> each[CHOOSE k \in failed : \A j \in failed : k <= j].exc,
              rows |-> <<>>]
        ELSE [kind |-> "return", exc |-> "none",
              rows |-> [k \in 1..Len(items) |-> each[k].row]]

\* if args.sync_repos: fetch, transform, upsert, print the count, return 0.
\* An exception leaves main() at the line that raised it.
SyncRepos ==
    /\ cmd = "none"
    /\ cmd' = "sync-repos"
    /\ \E items \in UserReposResults :
           /\ fetchedItems' = <<items>>
           /\ IF items.kind = "raise"
              THEN /\ exit' = MainHandler(items.exc)
                   /\ UNCHANGED <<repos, reported, lastCall, ret, lastLen>>
              ELSE LET rows == TransformRepos(items.value.items)
                       done == upsert_repos(repos, rows.rows)
                   IN  IF rows.kind = "raise"
                       THEN /\ exit' = MainHandler(rows.exc)
                            /\ UNCHANGED <<repos, reported, lastCall, ret,
                                           lastLen>>
                       ELSE /\ repos' = done.table
                            /\ ret' = done.ret
                            /\ lastCall' = "upsert_repos"
                            /\ lastLen' = Len(rows.rows)
                            /\ reported' = done.ret.value
                            /\ exit' = Return(0)
    /\ UNCHANGED <<issues, reapplied, submittedRepos, submittedIssues, state,
                   firstOrphan, stateCallVars, limit, repo_rows,
                   total_synced, fetched>>

(***************************************************************************)
(* The transform of an issue and the storage calls that follow it, made    *)
(* one by one.  transforms.py:20-44, storage.py:145-236.                   *)
(***************************************************************************)
\* The items converted: an issue and a pull request, open or closed, and the
\* same without "state" or without "updated_at".
IssueItems ==
    {IssueItem(1, 1, st) : st \in IssueStates}
    \cup {PullRequestItem(2, 2, st) : st \in IssueStates}
    \cup {Without(IssueItem(1, 1, "open"), "state"),
          Without(PullRequestItem(2, 2, "open"), "state"),
          Without(IssueItem(1, 1, "open"), "updated_at")}

\* issue_json_to_row(repo_id, item) for a stored repository.
ConvertIssue ==
    /\ \E r \in repos, item \in IssueItems :
           converted' = issue_json_to_row(r.repo_id, item)
    /\ UNCHANGED <<storageVars, clientVars, metricsVars, cliVars>>

\* upsert_issues([row]) for the row the conversion returned.
StoreConverted ==
    /\ converted.kind = "return"
    /\ UpsertIssues(<<converted.row>>)
    /\ UNCHANGED <<transformVars, clientVars, metricsVars, cliVars>>

(***************************************************************************)
(* The specifications.                                                     *)
(***************************************************************************)
UpsertReposCall ==
    /\ \E b \in RepoBatches : UpsertRepos(b)
    /\ UNCHANGED <<clientVars, transformVars, metricsVars, cliVars>>

UpsertIssuesCall ==
    /\ \E b \in IssueBatches : UpsertIssues(b)
    /\ UNCHANGED <<clientVars, transformVars, metricsVars, cliVars>>

SetStateCall ==
    /\ \E key \in StateKeys, value \in StateValues : SetState(key, value)
    /\ UNCHANGED <<clientVars, transformVars, metricsVars, cliVars>>

GetStateCall ==
    /\ \E key \in StateKeys : GetState(key)
    /\ UNCHANGED <<clientVars, transformVars, metricsVars, cliVars>>

StorageSpecInit ==
    StorageInit /\ ClientIdle /\ MetricsIdle /\ CliIdle /\ TransformIdle

StorageNext == UpsertReposCall \/ UpsertIssuesCall

StorageSpec == StorageSpecInit /\ [][StorageNext]_vars

\* OneCallSpec: one call of the storage layer on a store that earlier calls
\* have filled.  A table has at most one row per id (PRIMARY KEY) and an
\* issue references a stored repository (FOREIGN KEY).
StoredReposTables ==
    {{RepoRow(id, pick[id][1]) : id \in {x \in RepoIds : pick[x] # None}} :
         pick \in [RepoIds -> {None} \cup {Some(v) : v \in StarValues}]}

StoredIssuesTables(reposTable) ==
    LET kinds == {<<r.repo_id, st>> : r \in reposTable, st \in IssueStates}
    IN  {{IssueRow(id, pick[id][1][1], pick[id][1][2]) :
              id \in {x \in IssueIds : pick[x] # None}} :
             pick \in [IssueIds -> {None} \cup {Some(k) : k \in kinds}]}

\* The state table of such a store: no sync cursor, or one under each key.
StoredStateTables ==
    {[key \in StateKeys |-> None],
     [key \in StateKeys |-> Some("2025-01-01T00:00:00Z")]}

OneCallSpecInit ==
    /\ repos \in StoredReposTables
    /\ issues \in StoredIssuesTables(repos)
    /\ state \in StoredStateTables
    /\ StateCallIdle
    /\ lastCall = "none"
    /\ ret = NoResult
    /\ reapplied = [table |-> {}, ret |-> NoResult]
    /\ submittedRepos =
           [id \in RepoIds |->
               IF \E r \in repos : r.repo_id = id
               THEN Some(CHOOSE r \in repos : r.repo_id = id) ELSE None]
    /\ submittedIssues =
           [id \in IssueIds |->
               IF \E i \in issues : i.issue_id = id
               THEN Some(CHOOSE i \in issues : i.issue_id = id) ELSE None]
    /\ lastLen = 0
    /\ firstOrphan = 0
    /\ ClientIdle /\ MetricsIdle /\ CliIdle /\ TransformIdle

OneCallNext ==
    \/ lastCall = "none" /\ UpsertReposCall
    \/ lastCall = "none" /\ UpsertIssuesCall
    \/ lastCall = "none" /\ SetStateCall

OneCallSpec == OneCallSpecInit /\ [][OneCallNext]_vars

\* StateSpec: any sequence of get_state and set_state calls, starting with
\* the state table empty as _ensure_schema creates it, beside repos and
\* issues tables that earlier calls have filled.
StateSpecInit ==
    /\ repos \in StoredReposTables
    /\ issues \in StoredIssuesTables(repos)
    /\ state = [key \in StateKeys |-> None]
    /\ StateCallIdle
    /\ lastCall = "none"
    /\ ret = NoResult
    /\ reapplied = [table |-> {}, ret |-> NoResult]
    /\ submittedRepos = [id \in RepoIds |-> None]
    /\ submittedIssues = [id \in IssueIds |-> None]
    /\ lastLen = 0
    /\ firstOrphan = 0
    /\ ClientIdle /\ MetricsIdle /\ CliIdle /\ TransformIdle

StateNext == GetStateCall \/ SetStateCall

StateSpec == StateSpecInit /\ [][StateNext]_vars

ClientSpecInit ==
    StorageInit /\ ClientIdle /\ MetricsIdle /\ CliIdle /\ TransformIdle

nonClientVars == <<storageVars, transformVars, metricsVars, cliVars>>

ClientNext ==
    \/ Call /\ UNCHANGED nonClientVars
    \/ RequestJson /\ UNCHANGED nonClientVars
    \/ UserReposReturn /\ UNCHANGED nonClientVars
    \/ UserReposCycle /\ UNCHANGED nonClientVars
    \/ UserReposPage /\ UNCHANGED nonClientVars
    \/ RepoIssuesReturn /\ UNCHANGED nonClientVars
    \/ RepoIssuesPage /\ UNCHANGED nonClientVars

ClientSpec == ClientSpecInit /\ [][ClientNext]_vars

\* MetricsSpec: a store that earlier upserts have filled is queried.
MetricsQueryCall ==
    /\ MetricsQuery
    /\ CliReset
    /\ UNCHANGED <<clientVars, transformVars>>

MetricsCommandCall ==
    /\ MetricsCommand
    /\ UNCHANGED <<clientVars, transformVars>>

MetricsSpecInit ==
    /\ repos \in MetricsReposTables
    /\ issues \in MetricsIssuesTables(repos)
    /\ lastCall = "none"
    /\ ret = NoResult
    /\ reapplied = [table |-> {}, ret |-> NoResult]
    /\ submittedRepos =
           [id \in RepoIds |->
               IF \E r \in repos : r.repo_id = id
               THEN Some(CHOOSE r \in repos : r.repo_id = id) ELSE None]
    /\ submittedIssues = [id \in IssueIds |-> None]
    /\ state = [key \in StateKeys |-> None]
    /\ StateCallIdle
    /\ lastLen = 0
    /\ firstOrphan = 0
    /\ ClientIdle /\ MetricsIdle /\ CliIdle /\ TransformIdle

MetricsNext == MetricsQueryCall \/ MetricsCommandCall

MetricsSpec == MetricsSpecInit /\ [][MetricsNext]_vars

\* SyncSpec: one run of --sync-issues on a store that earlier runs filled.
SyncSpecInit ==
    /\ repos \in SyncReposTables
    /\ issues \in SyncIssuesTables(repos)
    /\ lastCall = "none"
    /\ ret = NoResult
    /\ reapplied = [table |-> {}, ret |-> NoResult]
    /\ submittedRepos = [id \in RepoIds |-> None]
    /\ submittedIssues = [id \in IssueIds |-> None]
    /\ state = [key \in StateKeys |-> None]
    /\ StateCallIdle
    /\ lastLen = 0
    /\ firstOrphan = 0
    /\ ClientIdle /\ MetricsIdle /\ CliIdle /\ TransformIdle

SyncNext ==
    \/ SyncStart /\ UNCHANGED <<clientVars, transformVars, metricsVars>>
    \/ SyncRepo /\ UNCHANGED <<clientVars, transformVars, metricsVars>>
    \/ SyncReturn /\ UNCHANGED <<clientVars, transformVars, metricsVars>>

SyncSpec == SyncSpecInit /\ [][SyncNext]_vars

\* SyncReposSpec: one run of --sync-repos on a store that earlier runs
\* filled.
SyncReposSpecInit ==
    /\ repos \in StoredReposTables
    /\ issues \in StoredIssuesTables(repos)
    /\ state \in StoredStateTables
    /\ StateCallIdle
    /\ lastCall = "none"
    /\ ret = NoResult
    /\ reapplied = [table |-> {}, ret |-> NoResult]
    /\ submittedRepos = [id \in RepoIds |-> None]
    /\ submittedIssues = [id \in IssueIds |-> None]
    /\ lastLen = 0
    /\ firstOrphan = 0
    /\ ClientIdle /\ MetricsIdle /\ CliIdle /\ TransformIdle

SyncReposNext ==
    SyncRepos /\ UNCHANGED <<clientVars, transformVars, metricsVars>>

SyncReposSpec == SyncReposSpecInit /\ [][SyncReposNext]_vars

\* TransformSpec: issue items are converted, the rows stored and the store
\* queried, call by call, starting with no issue stored.
TransformSpecInit ==
    /\ repos \in StoredReposTables
    /\ issues = {}
    /\ state = [key \in StateKeys |-> None]
    /\ StateCallIdle
    /\ lastCall = "none"
    /\ ret = NoResult
    /\ reapplied = [table |-> {}, ret |-> NoResult]
    /\ submittedRepos = [id \in RepoIds |-> None]
    /\ submittedIssues = [id \in IssueIds |-> None]
    /\ lastLen = 0
    /\ firstOrphan = 0
    /\ ClientIdle /\ MetricsIdle /\ CliIdle /\ TransformIdle

TransformNext == ConvertIssue \/ StoreConverted \/ MetricsQueryCall

TransformSpec == TransformSpecInit /\ [][TransformNext]_vars

\* SystemSpec: one operation of the system, of any kind, on a store that
\* earlier operations have filled: a call of the storage layer, or a run of
\* --sync-repos or of --sync-issues to its end.
SystemSpecInit ==
    /\ repos \in StoredReposTables
    /\ issues \in StoredIssuesTables(repos)
    /\ state = [key \in StateKeys |-> None]
    /\ StateCallIdle
    /\ lastCall = "none"
    /\ ret = NoResult
    /\ reapplied = [table |-> {}, ret |-> NoResult]
    /\ submittedRepos = [id \in RepoIds |-> None]
    /\ submittedIssues = [id \in IssueIds |-> None]
    /\ lastLen = 0
    /\ firstOrphan = 0
    /\ ClientIdle /\ MetricsIdle /\ CliIdle /\ TransformIdle

NothingDoneYet == lastCall = "none" /\ cmd = "none"

SystemNext ==
    \/ NothingDoneYet /\ UpsertReposCall
    \/ NothingDoneYet /\ UpsertIssuesCall
    \/ NothingDoneYet /\ SetStateCall
    \/ NothingDoneYet /\ GetStateCall
    \/ NothingDoneYet /\ MetricsQueryCall
    \/ NothingDoneYet /\ SyncReposNext
    \/ NothingDoneYet /\ SyncStart
                      /\ UNCHANGED <<clientVars, transformVars, metricsVars>>
    \/ SyncRepo /\ UNCHANGED <<clientVars, transformVars, metricsVars>>
    \/ SyncReturn /\ UNCHANGED <<clientVars, transformVars, metricsVars>>

SystemSpec == SystemSpecInit /\ [][SystemNext]_vars

(***************************************************************************)
(* Properties of the storage layer, checked under StorageSpec.             *)
(***************************************************************************)
RowsWithRepoId(t, id) == {x \in t : x.repo_id = id}
RowsWithIssueId(t, id) == {x \in t : x.issue_id = id}

\* The table the last call wrote to.
LastTable == IF lastCall = "upsert_repos" THEN repos ELSE issues

\* C1: applying the batch of the last upsert_repos / upsert_issues call a
\* second time leaves the table as the first application left it, with at
\* most one row per id, and gives back what the first call gave back (the
\* same submitted-row count, or the same integrity error).
C1_UpsertTwiceIsUpsertOnce ==
    lastCall # "none" =>
        /\ reapplied.table = LastTable
        /\ reapplied.ret = ret
        /\ lastCall = "upsert_repos" =>
               \A id \in RepoIds :
                   Cardinality(RowsWithRepoId(reapplied.table, id)) <= 1
        /\ lastCall = "upsert_issues" =>
               \A id \in IssueIds :
                   Cardinality(RowsWithIssueId(reapplied.table, id)) <= 1

\* A two-row issue batch was stored, and storing it again changed nothing.
C1_Witness ==
    /\ lastCall = "upsert_issues"
    /\ ret = Return(2)
    /\ Cardinality(issues) = 2
    /\ reapplied = [table |-> issues, ret |-> Return(2)]

\* C2: each table holds, for every id, exactly the row most recently
\* submitted with that id by a successful call (and no row for an id never
\* submitted): a later batch wins over an earlier one and, within a batch,
\* a later position over an earlier one.
C2_LastSubmittedRowWins ==
    /\ \A id \in RepoIds :
           RowsWithRepoId(repos, id) =
               IF submittedRepos[id] = None THEN {}
               ELSE {submittedRepos[id][1]}
    /\ \A id \in IssueIds :
           RowsWithIssueId(issues, id) =
               IF submittedIssues[id] = None THEN {}
               ELSE {submittedIssues[id][1]}

\* A batch that named one repository twice was stored on top of a row that
\* was already there, and an issue has been moved to another repository.
C2_Witness ==
    /\ lastCall = "upsert_repos"
    /\ ret = Return(2)
    /\ Cardinality(repos) = 1
    /\ \E x \in repos : x.stargazers_count = 1
    /\ \E i \in issues : i.state = "closed"

\* C3: every row of issues references a row of repos.
C3_NoOrphanIssue ==
    \A i \in issues : \E r \in repos : r.repo_id = i.repo_id

\* An issue batch was refused for referencing a repository that is not
\* stored, while other issues are stored.
C3_Witness ==
    /\ lastCall = "upsert_issues"
    /\ ret = Raise("IntegrityError")
    /\ issues # {}
    /\ \E id \in RepoIds : RowsWithRepoId(repos, id) = {}

(***************************************************************************)
(* Properties of one storage call, checked under OneCallSpec.              *)
(***************************************************************************)
\* C20: upsert_repos and upsert_issues return len(rows_list), whatever the
\* rows change and however often an id repeats in the batch; a call with an
\* empty batch returns 0 and leaves the repos, issues and state tables as
\* they were.
C20_UpsertReturnsRowsSubmitted ==
    /\ [](lastCall \in {"upsert_repos", "upsert_issues"} =>
              /\ ret.kind = "return" => ret.value = lastLen
              /\ lastLen = 0 => ret = Return(0))
    /\ [][(lastCall' \in {"upsert_repos", "upsert_issues"} /\ lastLen' = 0)
              => /\ repos' = repos
                 /\ issues' = issues
                 /\ state' = state]_vars

\* upsert_issues was called with an empty batch on a store that holds
\* repositories, issues and a sync cursor, which it holds as before.
C20_Witness ==
    /\ lastCall = "upsert_issues"
    /\ lastLen = 0
    /\ ret = Return(0)
    /\ Cardinality(repos) = 2 /\ Cardinality(issues) = 2
    /\ \A key \in StateKeys : state[key] # None

\* C22: upsert_issues stores a batch whole or not at all.  A call whose batch
\* has a row with a repo_id that no row of repos has raises IntegrityError
\* and leaves issues as it was before the call, rows of the batch that come
\* before that row and reference a stored repository included.
C22_IssueBatchIsAtomic ==
    [][(lastCall' = "upsert_issues" /\ firstOrphan' > 0)
           => /\ ret' = Raise("IntegrityError")
              /\ issues' = issues]_vars

\* A batch of two rows was refused for its second row; its first row
\* references a stored repository and no issue is stored.
C22_Witness ==
    /\ lastCall = "upsert_issues"
    /\ firstOrphan = 2
    /\ ret = Raise("IntegrityError")
    /\ repos # {}
    /\ issues = {}

(***************************************************************************)
(* Properties of the client, checked under ClientSpec.                     *)
(***************************************************************************)
Listing == op \in {"iter_user_repos", "iter_repo_issues"}
Finished == pc = "done"
LastResponse == responses[Len(responses)]

\* The response is one the loop takes items from.
GoodPage(a) ==
    a.kind = "response" /\ a.status < 400 /\ a.body.type = "list"

\* The Link header has the segment <url>; rel="next".
HasNextSegmentTo(link, url) ==
    /\ link # None
    /\ Len(url) = 1
    /\ \E i \in 1..Len(link[1]) :
           /\ i + 5 <= Len(link[1])
           /\ SubSeq(link[1], i, i + 5) = Segment(url[1], RelNext)

HasNextSegment(link) == \E u \in Urls : HasNextSegmentTo(link, <<u>>)

RECURSIVE ItemsOfPages(_)
ItemsOfPages(pages) ==
    IF pages = <<>> THEN <<>>
    ELSE Head(pages).body.items \o ItemsOfPages(Tail(pages))

\* C4: a listing requests its first page, then for each response the URL of
\* that response's rel="next" segment and nothing else; a response without
\* such a segment ends it; what it returns is the items of the requested
\* pages in request order, one request per page.
C4_PaginationFollowsNextLinks ==
    Listing =>
        /\ Len(requested) = Len(responses)
        /\ Len(requested) >= 1 => requested[1] = FirstUrl
        /\ \A i \in 1..(Len(requested) - 1) :
               /\ GoodPage(responses[i])
               /\ HasNextSegmentTo(responses[i].headers["Link"],
                                   requested[i + 1])
        /\ (/\ pc = "running" /\ Len(responses) >= 1
            /\ ~HasNextSegment(LastResponse.headers["Link"]))
               => ~Truthy(next_url)
        /\ (Finished /\ outcome.kind = "return") =>
               /\ Len(requested) >= 1
               /\ GoodPage(LastResponse)
               /\ ~HasNextSegment(LastResponse.headers["Link"])
               /\ outcome.value = Body("list", ItemsOfPages(responses))

\* A listing returned the items of three pages.
C4_Witness ==
    /\ Listing /\ Finished
    /\ outcome.kind = "return"
    /\ Len(requested) = 3
    /\ Len(outcome.value.items) >= 3

NoUrlTwice(urls) ==
    \A i, j \in 1..Len(urls) : urls[i] = urls[j] => i = j

\* C5: iter_user_repos requests no URL twice; when a page's next link is a
\* URL it has requested, it raises the RuntimeError of its cycle guard
\* without a further request.
C5_UserReposRequestsNoUrlTwice ==
    op = "iter_user_repos" =>
        /\ NoUrlTwice(requested)
        /\ (/\ Finished /\ Len(responses) >= 1 /\ GoodPage(LastResponse)
            /\ \E j \in 1..Len(requested) :
                   HasNextSegmentTo(LastResponse.headers["Link"],
                                    requested[j]))
               => /\ outcome.kind = "raise"
                  /\ outcome.exc = "RuntimeError"

\* The second page linked back to the first and the guard stopped the fetch.
C5_Witness ==
    /\ op = "iter_user_repos" /\ Finished
    /\ outcome.exc = "RuntimeError"
    /\ Len(requested) = 2
    /\ HasNextSegmentTo(LastResponse.headers["Link"], FirstUrl)

\* C6: iter_repo_issues never requests again a URL it has fetched in the
\* same operation: a next link that points back ends the fetch with an
\* error instead of another request.
C6_RepoIssuesRequestsNoUrlTwice ==
    op = "iter_repo_issues" => NoUrlTwice(requested)

\* C7: a 403 response whose X-RateLimit-Remaining header is "0" ends the
\* operation with GitHubRateLimitError carrying the X-RateLimit-Reset value.
C7_ZeroQuota403IsRateLimitError ==
    (/\ Finished /\ Len(responses) >= 1
     /\ LastResponse.kind = "response"
     /\ LastResponse.status = 403
     /\ LastResponse.headers["X-RateLimit-Remaining"] = Some("0"))
        => /\ outcome.kind = "raise"
           /\ outcome.exc = "GitHubRateLimitError"
           /\ outcome.reset = LastResponse.headers["X-RateLimit-Reset"]

\* C8: a 401 response, on any page and with any headers, ends the operation
\* with GitHubAuthError.
C8_401IsAuthError ==
    (/\ Finished /\ Len(responses) >= 1
     /\ LastResponse.kind = "response"
     /\ LastResponse.status = 401)
        => /\ outcome.kind = "raise"
           /\ outcome.exc = "GitHubAuthError"

\* The second page of a listing was answered 401 with a zero-quota header.
C8_Witness ==
    /\ Listing /\ Finished
    /\ Len(responses) = 2
    /\ LastResponse.status = 401
    /\ LastResponse.headers["X-RateLimit-Remaining"] = Some("0")
    /\ outcome.exc = "GitHubAuthError"

\* C9: a response with status >= 400 other than 401, and other than a 403
\* whose X-RateLimit-Remaining is "0", ends the operation with
\* GitHubHTTPError carrying that status; every response the operation went
\* on from, or returned after, has a status below 400.
C9_OtherErrorStatusIsHttpError ==
    /\ (/\ Finished /\ Len(responses) >= 1
        /\ LastResponse.kind = "response"
        /\ LastResponse.status >= 400
        /\ LastResponse.status # 401
        /\ ~(/\ LastResponse.status = 403
             /\ LastResponse.headers["X-RateLimit-Remaining"] = Some("0")))
           => /\ outcome.kind = "raise"
              /\ outcome.exc = "GitHubHTTPError"
              /\ outcome.status = LastResponse.status
    /\ \A i \in 1..(Len(responses) - 1) :
           responses[i].kind = "response" /\ responses[i].status < 400
    /\ (Finished /\ outcome.kind = "return") =>
           \A i \in 1..Len(responses) :
               responses[i].kind = "response" /\ responses[i].status < 400

\* get_viewer was answered 404, or a listing's second page 403 with quota
\* left: it ended in GitHubHTTPError.
C9_Witness ==
    /\ Finished
    /\ outcome.exc = "GitHubHTTPError"
    /\ \/ op = "get_viewer" /\ LastResponse.status = 404
       \/ /\ Listing /\ Len(responses) = 2
          /\ LastResponse.status = 403
          /\ LastResponse.headers["X-RateLimit-Remaining"] = Some("57")

\* C10: a finished listing has either raised, and then hands no item to its
\* caller, or returned, and then every request was answered by a good page
\* and the list returned is all of their items.
C10_NoPartialList ==
    (Listing /\ Finished) =>
        /\ outcome.kind \in {"raise", "return"}
        /\ outcome.kind = "raise" => outcome.value = JsonNone
        /\ (\E i \in 1..Len(responses) : ~GoodPage(responses[i]))
               => outcome.kind = "raise"
        /\ outcome.kind = "return" =>
               outcome.value = Body("list", ItemsOfPages(responses))

\* The first page gave items and the request for the second failed (a
\* transport failure, an error status or a body that is no list).
C10_Witness ==
    /\ Listing /\ Finished
    /\ Len(responses) = 2
    /\ responses[1].body.items # <<>>
    /\ ~GoodPage(responses[2])
    /\ all_items # <<>>
    /\ outcome.kind = "raise"

\* The client's own error kinds for a response it did receive.
ResponseErrorKinds ==
    {"GitHubHTTPError", "GitHubAuthError", "GitHubRateLimitError"}

\* C11: an operation whose request met a transport timeout or connection
\* failure ends by raising an error of a kind of its own, which is none of
\* the HTTP, auth and rate-limit kinds, and a listing hands back no item.
C11_TransportFailureIsNetworkError ==
    (/\ Finished /\ Len(responses) >= 1
     /\ LastResponse.kind # "response")
        => /\ outcome.kind = "raise"
           /\ outcome.exc \notin ResponseErrorKinds
           /\ outcome.value = JsonNone

\* C12: a listing whose 2xx response body is not an array ends by raising an
\* error of a kind other than the HTTP error, and hands back no item.
C12_NonListBodyIsMalformedResponseError ==
    (/\ Listing /\ Finished /\ Len(responses) >= 1
     /\ LastResponse.kind = "response"
     /\ LastResponse.status \in 200..299
     /\ LastResponse.body.type # "list")
        => /\ outcome.kind = "raise"
           /\ outcome.exc # "GitHubHTTPError"
           /\ outcome.value = JsonNone

(***************************************************************************)
(* Properties of Storage.metrics and the --metrics command, checked under  *)
(* MetricsSpec.                                                            *)
(***************************************************************************)
\* The number of issue ids stored with this kind and state.
IdsStoredAs(pr, st) ==
    Cardinality({id \in MetricsIssueIds :
                     \E i \in issues : /\ i.issue_id = id
                                       /\ i.is_pull_request = pr
                                       /\ i.state = st})

\* C13: metrics() reports total = the number of issue rows, issues_open and
\* issues_closed = the numbers of rows with is_pull_request=0 that are open
\* and closed, prs_open and prs_closed = the numbers of rows with
\* is_pull_request=1 that are open and closed.
C13_MetricsCountsRowsByKindAndState ==
    lastCall = "metrics" =>
        /\ m.total =
               Cardinality({id \in MetricsIssueIds :
                                \E i \in issues : i.issue_id = id})
        /\ m.issues_open = IdsStoredAs(0, "open")
        /\ m.issues_closed = IdsStoredAs(0, "closed")
        /\ m.prs_open = IdsStoredAs(1, "open")
        /\ m.prs_closed = IdsStoredAs(1, "closed")

\* The store of the example: repository u/a with issue 101 open, pull
\* request 102 open and issue 103 closed gives 3, 1, 1, 1, 0 and (u/a, 1).
C13_Witness ==
    /\ lastCall = "metrics"
    /\ repos = {RepoRowNamed(1, "u/a", 0, 0)}
    /\ issues = {IssueRowOfKind(101, 1, "open", 0),
                 IssueRowOfKind(102, 1, "open", 1),
                 IssueRowOfKind(103, 1, "closed", 0)}
    /\ m.total = 3
    /\ m.issues_open = 1 /\ m.issues_closed = 1
    /\ m.prs_open = 1 /\ m.prs_closed = 0
    /\ m.top_open_issues = << <<"u/a", 1>> >>

\* C14: the dict metrics() returns has the keys total, open, closed and
\* top_open that the --metrics command reads, open and closed being the
\* numbers of rows in that state, and the command ends with status 0.
C14_MetricsHasTheKeysItsConsumersRead ==
    cmd = "metrics" =>
        /\ \A key \in {"total", "open", "closed", "top_open"} :
               key \in DOMAIN m
        /\ m["open"] = IdsStoredAs(0, "open") + IdsStoredAs(1, "open")
        /\ m["closed"] = IdsStoredAs(0, "closed") + IdsStoredAs(1, "closed")
        /\ exit = Return(0)

\* The open true-issues of a repository.
OpenTrueIssues(r) ==
    Cardinality({i \in issues : /\ i.repo_id = r.repo_id
                                /\ i.is_pull_request = 0
                                /\ i.state = "open"})

\* C15: the top list has at most 5 entries, one for each of that many
\* repositories with an open true-issue, each the repository's full_name
\* with its own count of open true-issues, in descending order of count, and
\* no repository left out has a larger count than one listed.
C15_TopListIsPerRepository ==
    lastCall = "metrics" =>
        LET top == m.top_open_issues
            withOpen == {r \in repos : OpenTrueIssues(r) >= 1}
        IN  /\ Len(top) <= 5
            /\ Len(top) = IF Cardinality(withOpen) < 5
                          THEN Cardinality(withOpen) ELSE 5
            /\ \A i, j \in 1..Len(top) : i < j => top[i][2] >= top[j][2]
            /\ \E f \in [1..Len(top) -> withOpen] :
                   /\ \A i, j \in 1..Len(top) : f[i] = f[j] => i = j
                   /\ \A i \in 1..Len(top) :
                          top[i] = <<f[i].full_name, OpenTrueIssues(f[i])>>
                   /\ \A r \in withOpen :
                          (\A i \in 1..Len(top) : f[i] # r) =>
                              \A i \in 1..Len(top) :
                                  OpenTrueIssues(r) <= top[i][2]

\* C16: two stores that hold the same repository and issue rows return the
\* same top list in the same order.
C16_TopListOrderIsDeterministic ==
    lastCall = "metrics" => m.top_open_issues = m2.top_open_issues

(***************************************************************************)
(* Properties of the --sync-issues command, checked under SyncSpec.        *)
(***************************************************************************)
SyncFinished == cmd = "sync-issues" /\ exit # NoResult

\* The client returned a list for every repository it was asked about.
EveryFetchReturned ==
    \A k \in 1..Len(fetchedItems) : fetchedItems[k].kind = "return"

RECURSIVE ItemCount(_)
ItemCount(results) ==
    IF results = <<>> THEN 0
    ELSE Len(Head(results).value.items) + ItemCount(Tail(results))

\* The issues table has the row of this item, under this repository.
StoredFrom(item, repo_id) ==
    \E row \in issues :
        /\ row.issue_id = item.fields["id"]
        /\ row.repo_id = repo_id
        /\ row.number = item.fields["number"]
        /\ row.state = item.fields["state"]
        /\ row.is_pull_request =
               IF "pull_request" \in DOMAIN item.fields THEN 1 ELSE 0
        /\ row.created_at = item.fields["created_at"]
        /\ row.updated_at = item.fields["updated_at"]

\* C17: a run in which the client returned every list it was asked for ends
\* without error, with every returned item stored as an issue row of the
\* repository it was fetched for, and a total equal to the number of items
\* returned.
C17_EveryFetchedItemIsStored ==
    (SyncFinished /\ EveryFetchReturned) =>
        /\ exit = Return(0)
        /\ \A k \in 1..Len(fetchedItems) :
               \A j \in 1..Len(fetchedItems[k].value.items) :
                   StoredFrom(fetchedItems[k].value.items[j], repo_rows[k][1])
        /\ total_synced = ItemCount(fetchedItems)

\* a ranks at least as high as b by (stargazers_count, forks_count).
RanksAtLeast(a, b) ==
    \/ a.stargazers_count > b.stargazers_count
    \/ /\ a.stargazers_count = b.stargazers_count
       /\ a.forks_count >= b.forks_count

Min(a, b) == IF a < b THEN a ELSE b

\* C18: a run with a bound N >= 0 that no client error stops asks for the
\* issues of exactly min(N, stored repositories) repositories, each once, in
\* descending order of (stargazers_count, forks_count), none of them ranked
\* below a repository it does not ask for.
C18_FetchesExactlyTheTopN ==
    (SyncFinished /\ EveryFetchReturned /\ limit >= 0) =>
        LET asked == {r \in repos :
                         \E k \in 1..Len(fetched) : fetched[k] = r.full_name}
        IN  /\ Len(fetched) = Min(limit, Cardinality(repos))
            /\ Cardinality(asked) = Len(fetched)
            /\ \A i, j \in 1..Len(fetched) :
                   i < j =>
                       \E a, b \in asked :
                           /\ a.full_name = fetched[i]
                           /\ b.full_name = fetched[j]
                           /\ RanksAtLeast(a, b)
            /\ \A a \in asked : \A b \in repos \ asked : RanksAtLeast(a, b)

\* A client error has ended the fetch for some repository.
FetchRaised(results) ==
    \E k \in 1..Len(results) : results[k].kind = "raise"

\* C19: once the client has raised while fetching for a repository, the run
\* is over and that fetch is the last one it made; the step on which the
\* client raises writes no issue row, and no step after it changes the
\* issues table.
C19_ClientErrorStopsTheRun ==
    /\ [](FetchRaised(fetchedItems) =>
              /\ SyncFinished
              /\ exit \in {Return(1), Raise("JSONDecodeError")}
              /\ fetchedItems[Len(fetchedItems)].kind = "raise"
              /\ \A k \in 1..(Len(fetchedItems) - 1) :
                     fetchedItems[k].kind = "return")
    /\ [][FetchRaised(fetchedItems') =>
              /\ issues' = issues
              /\ FetchRaised(fetchedItems) => fetched' = fetched]_vars

\* The client raised for the second of three selected repositories: the
\* third was never asked for and the issue stored before the run is there.
C19_Witness ==
    /\ cmd = "sync-issues"
    /\ Len(repo_rows) = 3
    /\ Len(fetched) = 2
    /\ fetchedItems[2].kind = "raise"
    /\ exit = Return(1)
    /\ issues # {}

(***************************************************************************)
(* Properties of the state table, checked under StateSpec.                 *)
(***************************************************************************)

\* C21: the state table is last-write-wins.  get_state(k) returns the value
\* most recently passed to set_state for k, and None when set_state was never
\* called for k; a set_state made twice leaves the table that one call
\* leaves; and set_state(k, v) changes no other key's value and no row of
\* repos or issues.
C21_StateIsLastWriteWins ==
    /\ [](lastCall = "get_state" => got = written[lastKey])
    /\ [](lastCall = "set_state" => stateAgain = state)
    /\ [][lastCall' = "set_state" =>
              /\ \A key \in StateKeys \ {lastKey'} : state'[key] = state[key]
              /\ repos' = repos
              /\ issues' = issues]_vars

\* get_state returned the value written for its key, while the other key
\* holds the other value and the store holds repositories and issues.
C21_Witness ==
    /\ lastCall = "get_state"
    /\ got = Some("2025-01-02T00:00:00Z")
    /\ \E key \in StateKeys \ {lastKey} :
           state[key] = Some("2025-01-01T00:00:00Z")
    /\ repos # {} /\ issues # {}

(***************************************************************************)
(* Properties of the --sync-repos command, checked under SyncReposSpec.    *)
(***************************************************************************)
\* The list iter_user_repos returned to the run, <<>> if it raised.
ReposFetched ==
    IF fetchedItems # <<>> /\ fetchedItems[1].kind = "return"
    THEN fetchedItems[1].value.items ELSE <<>>

\* The places in the list of the items that lack one of the keys.
LackingAKey(items, keys) ==
    {k \in 1..Len(items) : \E key \in keys : key \notin DOMAIN items[k].fields}

\* C23: when an item of the fetched list lacks id, name, full_name or
\* html_url, the repository sync ends with a MappingError and the repos table
\* holds what it held before the run, the rows of the items that come before
\* the faulty one not among them.
C23_MissingFieldIsMappingError ==
    /\ []((cmd = "sync-repos" /\
            LackingAKey(ReposFetched, {"id", "name", "full_name",
                                       "html_url"}) # {})
              => exit = Raise("MappingError"))
    /\ [][(cmd' = "sync-repos" /\
            LackingAKey(ReposFetched', {"id", "name", "full_name",
                                        "html_url"}) # {})
              => repos' = repos]_vars

\* C26: the repository sync writes nothing unless the fetch returned and
\* every item was converted.  A run whose fetch raised, or whose list has an
\* item that cannot be converted, leaves repos, issues and state as they
\* were; any other run returns 0 and reports the number of items fetched.
C26_RepoSyncWritesAfterFetchAndTransform ==
    /\ [][(cmd' = "sync-repos" /\
            (\/ FetchRaised(fetchedItems')
             \/ LackingAKey(ReposFetched', RepoMandatoryKeys) # {}))
              => /\ repos' = repos
                 /\ issues' = issues
                 /\ state' = state]_vars
    /\ []((/\ cmd = "sync-repos"
           /\ ~FetchRaised(fetchedItems)
           /\ LackingAKey(ReposFetched, RepoMandatoryKeys) = {})
              => /\ exit = Return(0)
                 /\ reported = Len(ReposFetched))

\* The second of two items fetched lacks a mandatory key; the first is a
\* repository the store does not hold, and does not hold after the run, and
\* the issues and the sync cursors stored before the run are there.
C26_Witness ==
    /\ cmd = "sync-repos"
    /\ LackingAKey(ReposFetched, RepoMandatoryKeys) = {2}
    /\ \A r \in repos : r.repo_id # ReposFetched[1].fields["id"]
    /\ repos # {} /\ issues # {}
    /\ \A key \in StateKeys : state[key] # None

(***************************************************************************)
(* Properties of the client's errors as main() handles them, checked under *)
(* ClientSpec.                                                             *)
(***************************************************************************)
\* C24: an operation of the client that fails raises GitHubError or one of
\* its subclasses, whatever made it fail, so that the handler of main()
\* catches the exception and main() returns 1.
C24_EveryClientFailureIsGitHubError ==
    (Finished /\ outcome.kind = "raise")
        => /\ outcome.exc \in GitHubErrors
           /\ MainHandler(outcome.exc) = Return(1)

(***************************************************************************)
(* Properties of the rows the issue transform gives, checked under         *)
(* TransformSpec.                                                          *)
(***************************************************************************)
\* C25: every stored issue row has state "open" or "closed" and
\* is_pull_request 0 or 1, and so the total that metrics() gives is the sum
\* of its four counts: open issues, closed issues, open pull requests and
\* closed pull requests.
C25_MetricsCountsPartitionIssues ==
    /\ \A i \in issues : /\ i.state \in {"open", "closed"}
                          /\ i.is_pull_request \in {0, 1}
    /\ lastCall = "metrics" =>
           m.total = m.issues_open + m.issues_closed + m.prs_open
                         + m.prs_closed

(***************************************************************************)
(* Properties of every operation, checked under SystemSpec.                *)
(***************************************************************************)
\* C27: no operation deletes a repository or an issue.  Whatever step the
\* system takes (an upsert, a step of a sync that goes on or one that ends
\* it, a metrics query, a read or a write of the state table), every
\* repo_id in repos before the step is in repos after it, and every issue_id
\* in issues before the step is in issues after it.
C27_NoRowIsEverDeleted ==
    [][/\ {r.repo_id : r \in repos} \subseteq {r.repo_id : r \in repos'}
       /\ {i.issue_id : i \in issues} \subseteq {i.issue_id : i \in issues'}
      ]_vars

\* upsert_repos stored one row on a store that holds two repositories and
\* two issues afterwards: the other repository and the issues were there
\* before the call.
C27_Witness ==
    /\ lastCall = "upsert_repos"
    /\ lastLen = 1
    /\ ret = Return(1)
    /\ Cardinality(repos) = 2
    /\ Cardinality(issues) = 2

====
